---- MODULE Spec2Model ----
(***************************************************************************)
(* Model of src/main.rs: the /geo handler (handle_geo) with its two shared *)
(* DashMap stores, the per-client response cache and the per-client        *)
(* sliding 24-hour rate limiter.  Time is counted in whole hours.          *)
(*                                                                         *)
(* Each inbound request is one task.  A task runs handle_geo in the steps  *)
(* at which other tasks can interleave: reading the clock (line 97), the   *)
(* cache lookup (lines 100-105), the rate-limit step under the DashMap     *)
(* shard guard (lines 108-116), the suspension in the upstream call        *)
(* (line 126) and the handling of the provider's answer (lines 126-158).   *)
(* The guard `entry` taken on line 108 is a local of handle_geo that is    *)
(* dropped only when the function returns, so the shard stays write-locked *)
(* from line 108 until the response is produced.                           *)
(***************************************************************************)
EXTENDS Integers, Sequences, FiniteSets, TLC

VARIABLES
    clock,                 \* Utc::now(), in hours
    cache_ttl,             \* AppConfig.cache_ttl, in hours
    max_requests_per_day,  \* AppConfig.max_requests_per_day
    shard_of,              \* DashMap shard of each key of rate_limit_store
    rate_limit_store,      \* DashMap<String, Vec<DateTime>>: key -> timestamps
    cache_store,           \* DashMap<String, CacheEntry>: key -> entry
    lock,                  \* shard -> task holding its write guard, 0 if free
    pc,                    \* task -> position in handle_geo
    ip,                    \* task -> client key (line 96)
    now,                   \* task -> the task's `now` (line 97)
    reply,                 \* task -> the provider's answer to its call
    resp,                  \* task -> the response returned to the client
    arrivals,              \* number of requests received so far
    waited,                \* history: task -> a request of its key took its
                           \* limiter step while the task waited on line 108
    log                    \* history: key -> its limiter steps, in order

vars == <<clock, cache_ttl, max_requests_per_day, shard_of, rate_limit_store,
          cache_store, lock, pc, ip, now, reply, resp, arrivals, waited,
          log>>

config == <<cache_ttl, max_requests_per_day, shard_of>>

----------------------------------------------------------------------------
(* Bounds of the model *)

NumTasks == 2          \* requests in flight at the same time
MaxRequests == 2       \* requests received in one behaviour, two clients
MaxClientRequests == 4 \* requests received in one behaviour, one client
MaxQuota == 2          \* largest MAX_REQUESTS_PER_DAY tried
MaxTime == 24          \* the clock stops here (hours)
NumShards == 2         \* shards of the rate-limit DashMap
NumWorkers == 1        \* worker threads of the runtime

(* Inputs *)

Keys == {"A", "B"}
Shards == 1 .. NumShards
TickHours == {12}                \* the clock advances in these steps
TtlHours == {12, 24}             \* values of CACHE_TTL_HOURS tried
ExampleTimes == <<0, 1, 13, 14, 15>>   \* arrival times of the spec's example
WellBehavedTickHours == {6, 12}  \* clock steps between a client's requests

Tasks == DOMAIN pc

----------------------------------------------------------------------------
(* Durations: chrono::Duration in hours *)

DurationHoursAsDays(h) == h * 24
DurationHours(h) == h
DurationDaysDouble(d) == d * 48
DurationDays(d) == d * 24

(* HTTP statuses *)

OK == 200
TOO_MANY_REQUESTS == 429
INTERNAL_SERVER_ERROR == 500
BAD_GATEWAY == 502
FORBIDDEN == 403

is_success(status) == status >= 200 /\ status <= 299

(* The provider's answers.  sent = FALSE: send() failed (transport).       *)
(* decodable = FALSE: the body is no GoogleGeoResponse.                    *)
GoogleLocations == {[lat |-> 1, lng |-> 2], [lat |-> 3, lng |-> 4]}
NoGoogleLocation == [lat |-> 0, lng |-> 0]
NoReply == [sent |-> FALSE, status |-> 0, decodable |-> FALSE,
            location |-> NoGoogleLocation]
Replies ==
    {[sent |-> FALSE, status |-> 0, decodable |-> FALSE,
      location |-> NoGoogleLocation]}
    \cup {[sent |-> TRUE, status |-> FORBIDDEN, decodable |-> FALSE,
           location |-> NoGoogleLocation]}
    \cup {[sent |-> TRUE, status |-> OK, decodable |-> FALSE,
           location |-> NoGoogleLocation]}
    \cup {[sent |-> TRUE, status |-> OK, decodable |-> TRUE, location |-> g] :
             g \in GoogleLocations}

(* LocationResponse built from GoogleGeoResponse (lines 139-142) *)
LocationResponse(geo) == [lat |-> geo.lat, lon |-> geo.lng]
NoLocation == [lat |-> 0, lon |-> 0]

(* Responses: (StatusCode, String) or Json<LocationResponse> *)
NoResp == [status |-> 0, message |-> "", location |-> NoLocation]
Json(status, location) ==
    [status |-> status, message |-> "", location |-> location]
Error(status, message) ==
    [status |-> status, message |-> message, location |-> NoLocation]

StatusText(status) ==
    IF status = FORBIDDEN THEN "403 Forbidden" ELSE "other status"

(* GeoError and its conversion to (StatusCode, String) (lines 69-87) *)
GoogleApiAsInternal(e) == Error(INTERNAL_SERVER_ERROR, e)
RateLimited == Error(TOO_MANY_REQUESTS, "Rate limit exceeded")
GoogleApi(e) == Error(BAD_GATEWAY, e)
Internal(e) == Error(INTERNAL_SERVER_ERROR, e)

----------------------------------------------------------------------------
(* The stores *)

\* DashMap::insert, and the write-back through a RefMut
Put(map, k, v) == [x \in DOMAIN map \cup {k} |-> IF x = k THEN v ELSE map[x]]

\* rate_limit_store.entry(ip).or_default(): the stored Vec, empty if absent
Window(k) ==
    IF k \in DOMAIN rate_limit_store THEN rate_limit_store[k] ELSE <<>>

\* entry.retain(|t| *t + Duration::days(1) > now) (line 109)
InWindowInclusive(t, n) == t + DurationDays(1) >= n
InWindow(t, n) == t + DurationDays(1) > n
Retain(v, n) == SelectSeq(v, LAMBDA t : InWindow(t, n))

\* entry.len() >= config.max_requests_per_day (line 111)
ExhaustedOffByOne(v) == Len(v) > max_requests_per_day
Exhausted(v) == Len(v) >= max_requests_per_day

\* entry.timestamp + config.cache_ttl > now (line 101)
FreshInclusive(entry, n) == entry.timestamp + cache_ttl >= n
Fresh(entry, n) == entry.timestamp + cache_ttl > n
CacheHitFor(k, n) == k \in DOMAIN cache_store /\ Fresh(cache_store[k], n)

\* the shard guard of line 108 can be taken
LockFree(k) == lock[shard_of[k]] = 0

----------------------------------------------------------------------------
(* Initial state: main (lines 161-210) *)

InitStores ==
    /\ rate_limit_store = <<>>
    /\ cache_store = <<>>
    /\ lock = [s \in Shards |-> 0]

InitTasks(n) ==
    /\ pc = [t \in 1 .. n |-> "idle"]
    /\ ip = [t \in 1 .. n |-> ""]
    /\ now = [t \in 1 .. n |-> 0]
    /\ reply = [t \in 1 .. n |-> NoReply]
    /\ resp = [t \in 1 .. n |-> NoResp]
    /\ arrivals = 0
    /\ waited = [t \in 1 .. n |-> FALSE]
    /\ log = [k \in Keys |-> <<>>]

InitConfig ==
    /\ cache_ttl \in {DurationHours(h) : h \in TtlHours}
    /\ max_requests_per_day \in 0 .. MaxQuota

\* Which shard a key hashes to is not fixed by the program: two keys share
\* a shard or do not.
Init ==
    /\ clock = 0
    /\ InitConfig
    /\ shard_of \in {f \in [Keys -> Shards] : f["A"] = 1 /\ f["B"] <= 2}
    /\ InitStores
    /\ InitTasks(NumTasks)

----------------------------------------------------------------------------
(* Actions *)

\* The step that produces a response returns it: `done` only shows the
\* response before the task ends, and nothing else happens in between.
Running == \A u \in Tasks : pc[u] # "done"

\* Time passes.  The clock is read by arriving requests only (line 97), so
\* it stops with the last of them.
Tick(max) ==
    /\ Running
    /\ arrivals < max
    /\ \E d \in TickHours :
          /\ clock + d <= MaxTime
          /\ clock' = clock + d
    /\ UNCHANGED <<config, rate_limit_store, cache_store, lock, pc, ip, now,
                   reply, resp, arrivals, waited, log>>

\* A request of client k arrives and a task starts on it: lines 96-97.
\* The lowest free task takes it.
Arrive(t, k, max) ==
    /\ Running
    /\ arrivals < max
    /\ pc[t] = "idle"
    /\ \A u \in Tasks : u < t => pc[u] # "idle"
    /\ arrivals' = arrivals + 1
    /\ ip' = [ip EXCEPT ![t] = k]
    /\ now' = [now EXCEPT ![t] = clock]
    /\ pc' = [pc EXCEPT ![t] = "cache"]
    /\ UNCHANGED <<clock, config, rate_limit_store, cache_store, lock, reply,
                   resp, waited, log>>

\* Cache check, fresh entry: lines 100-104.
CacheHitCounted(t) ==
    /\ Running
    /\ pc[t] = "cache"
    /\ CacheHitFor(ip[t], now[t])
    /\ resp' = [resp EXCEPT ![t] = Json(OK, cache_store[ip[t]].response)]
    /\ pc' = [pc EXCEPT ![t] = "done"]
    /\ rate_limit_store' =
          [rate_limit_store EXCEPT ![ip[t]] = Append(@, now[t])]
    /\ UNCHANGED <<clock, config, cache_store, lock, ip, now, reply, arrivals,
                   waited, log>>

CacheHit(t) ==
    /\ Running
    /\ pc[t] = "cache"
    /\ CacheHitFor(ip[t], now[t])
    /\ resp' = [resp EXCEPT ![t] = Json(OK, cache_store[ip[t]].response)]
    /\ pc' = [pc EXCEPT ![t] = "done"]
    /\ UNCHANGED <<clock, config, rate_limit_store, cache_store, lock, ip, now,
                   reply, arrivals, waited, log>>

\* Cache check, no entry or a stale one: lines 100-105.
CacheMissUnlimited(t) ==
    /\ Running
    /\ pc[t] = "cache"
    /\ ~CacheHitFor(ip[t], now[t])
    /\ pc' = [pc EXCEPT ![t] = "upstream"]
    /\ UNCHANGED <<clock, config, rate_limit_store, cache_store, lock, ip, now,
                   reply, resp, arrivals, waited, log>>

CacheMiss(t) ==
    /\ Running
    /\ pc[t] = "cache"
    /\ ~CacheHitFor(ip[t], now[t])
    /\ pc' = [pc EXCEPT ![t] = "limit"]
    /\ UNCHANGED <<clock, config, rate_limit_store, cache_store, lock, ip, now,
                   reply, resp, arrivals, waited, log>>

\* How a response ends the request of a limiter step: denied (429), ok
\* (200) or failed (500, 502).
Outcome(response) ==
    IF response.status = TOO_MANY_REQUESTS THEN "denied"
    ELSE IF response.status = OK THEN "ok" ELSE "failed"

\* The history entry of the limiter step of task t: its `now`, the window it
\* found on line 108, its decision and (filled in on return) the outcome of
\* its request.
Decision(t, admitted) ==
    [now |-> now[t], window |-> Window(ip[t]), admitted |-> admitted,
     outcome |-> IF admitted THEN "in flight" ELSE Outcome(RateLimited)]

\* The requests of the key of task t that wait on line 108 see t take its
\* limiter step.
Overtaken(t) ==
    [u \in Tasks |->
        waited[u] \/ (u # t /\ pc[u] = "limit" /\ ip[u] = ip[t])]

\* Rate limiting, quota exhausted: lines 108-114.  The guard is dropped by
\* the return.
DeniedAppending(t) ==
    /\ Running
    /\ pc[t] = "limit"
    /\ LockFree(ip[t])
    /\ Exhausted(Retain(Window(ip[t]), now[t]))
    /\ rate_limit_store' =
          Put(rate_limit_store, ip[t],
              Append(Retain(Window(ip[t]), now[t]), now[t]))
    /\ resp' = [resp EXCEPT ![t] = RateLimited]
    /\ pc' = [pc EXCEPT ![t] = "done"]
    /\ log' = [log EXCEPT ![ip[t]] = Append(@, Decision(t, FALSE))]
    /\ waited' = Overtaken(t)
    /\ UNCHANGED <<clock, config, cache_store, lock, ip, now, reply, arrivals>>

Denied(t) ==
    /\ Running
    /\ pc[t] = "limit"
    /\ LockFree(ip[t])
    /\ Exhausted(Retain(Window(ip[t]), now[t]))
    /\ rate_limit_store' =
          Put(rate_limit_store, ip[t], Retain(Window(ip[t]), now[t]))
    /\ resp' = [resp EXCEPT ![t] = RateLimited]
    /\ pc' = [pc EXCEPT ![t] = "done"]
    /\ log' = [log EXCEPT ![ip[t]] = Append(@, Decision(t, FALSE))]
    /\ waited' = Overtaken(t)
    /\ UNCHANGED <<clock, config, cache_store, lock, ip, now, reply, arrivals>>

\* Rate limiting, admitted: lines 108-126.  The task suspends in send()
\* holding the guard.
Admitted(t) ==
    /\ Running
    /\ pc[t] = "limit"
    /\ LockFree(ip[t])
    /\ ~Exhausted(Retain(Window(ip[t]), now[t]))
    /\ rate_limit_store' =
          Put(rate_limit_store, ip[t],
              Append(Retain(Window(ip[t]), now[t]), now[t]))
    /\ lock' = [lock EXCEPT ![shard_of[ip[t]]] = t]
    /\ pc' = [pc EXCEPT ![t] = "upstream"]
    /\ log' = [log EXCEPT ![ip[t]] = Append(@, Decision(t, TRUE))]
    /\ waited' = Overtaken(t)
    /\ UNCHANGED <<clock, config, cache_store, ip, now, reply, resp, arrivals>>

\* handle_geo returns after the upstream call, answered by r: the guard of
\* line 108 is dropped.  The request in flight is the last one of its key
\* that passed the limiter.
Return(t, r, response) ==
    /\ Running
    /\ pc[t] = "upstream"
    /\ reply' = [reply EXCEPT ![t] = r]
    /\ resp' = [resp EXCEPT ![t] = response]
    /\ lock' = [lock EXCEPT ![shard_of[ip[t]]] = 0]
    /\ pc' = [pc EXCEPT ![t] = "done"]
    /\ log' = [log EXCEPT ![ip[t]][Len(log[ip[t]])].outcome =
                              Outcome(response)]
    /\ UNCHANGED <<clock, config, rate_limit_store, ip, now, arrivals, waited>>

\* send() failed: lines 126-129.
SendFailedRefund(t, r) ==
    /\ ~r.sent
    /\ Running
    /\ pc[t] = "upstream"
    /\ reply' = [reply EXCEPT ![t] = r]
    /\ resp' = [resp EXCEPT ![t] = Internal("error sending request")]
    /\ lock' = [lock EXCEPT ![shard_of[ip[t]]] = 0]
    /\ pc' = [pc EXCEPT ![t] = "done"]
    /\ log' = [log EXCEPT ![ip[t]][Len(log[ip[t]])].outcome = "failed"]
    /\ rate_limit_store' =
          [rate_limit_store EXCEPT ![ip[t]] = SubSeq(@, 1, Len(@) - 1)]
    /\ UNCHANGED <<clock, config, cache_store, ip, now, arrivals, waited>>

SendFailed(t, r) ==
    /\ ~r.sent
    /\ Return(t, r, Internal("error sending request"))
    /\ UNCHANGED cache_store

\* Non-success status: lines 154-158.
GoogleApiError(t, r) ==
    /\ r.sent
    /\ ~is_success(r.status)
    /\ Return(t, r, GoogleApi(StatusText(r.status)))
    /\ UNCHANGED cache_store

\* Success status, body not decodable: lines 131-135.
DecodeFailedCaching(t, r) ==
    /\ r.sent
    /\ is_success(r.status)
    /\ ~r.decodable
    /\ cache_store' = Put(cache_store, ip[t], [response |-> NoLocation,
                                               timestamp |-> now[t]])
    /\ Return(t, r, Internal("error decoding response body"))

DecodeFailed(t, r) ==
    /\ r.sent
    /\ is_success(r.status)
    /\ ~r.decodable
    /\ Return(t, r, Internal("error decoding response body"))
    /\ UNCHANGED cache_store

\* Success: lines 131-153.
CacheEntry(response, timestamp) ==
    [response |-> response, timestamp |-> timestamp]

Success(t, r) ==
    /\ r.sent
    /\ is_success(r.status)
    /\ r.decodable
    /\ cache_store' =
          Put(cache_store, ip[t],
              CacheEntry(LocationResponse(r.location), now[t]))
    /\ Return(t, r, Json(OK, LocationResponse(r.location)))

\* The response is sent and the task ends.
Respond(t) ==
    /\ pc[t] = "done"
    /\ pc' = [pc EXCEPT ![t] = "idle"]
    /\ ip' = [ip EXCEPT ![t] = ""]
    /\ now' = [now EXCEPT ![t] = 0]
    /\ reply' = [reply EXCEPT ![t] = NoReply]
    /\ resp' = [resp EXCEPT ![t] = NoResp]
    /\ waited' = [waited EXCEPT ![t] = FALSE]
    /\ UNCHANGED <<clock, config, rate_limit_store, cache_store, lock,
                   arrivals, log>>

\* The steps of handle_geo
Handle ==
    \/ \E t \in Tasks : CacheHit(t)
    \/ \E t \in Tasks : CacheMiss(t)
    \/ \E t \in Tasks : Denied(t)
    \/ \E t \in Tasks : Admitted(t)
    \/ \E t \in Tasks, r \in Replies : SendFailed(t, r)
    \/ \E t \in Tasks, r \in Replies : GoogleApiError(t, r)
    \/ \E t \in Tasks, r \in Replies : DecodeFailed(t, r)
    \/ \E t \in Tasks, r \in Replies : Success(t, r)
    \/ \E t \in Tasks : Respond(t)

\* Several clients
Next ==
    \/ Tick(MaxRequests)
    \/ \E t \in Tasks, k \in Keys : Arrive(t, k, MaxRequests)
    \/ Handle

Spec == Init /\ [][Next]_vars

\* One client with the default CACHE_TTL_HOURS, more requests
NextClient ==
    \/ Tick(MaxClientRequests)
    \/ \E t \in Tasks : Arrive(t, "A", MaxClientRequests)
    \/ Handle

InitClient ==
    /\ Init
    /\ cache_ttl = DurationHours(12)
    /\ \A k \in Keys : shard_of[k] = 1

SpecClient == InitClient /\ [][NextClient]_vars

\* The example of the specification: one client, the default configuration
\* (TTL 12 hours, quota 2), one request at each of the times ExampleTimes,
\* handled one after the other; the provider answers as it likes.
Received(n) == arrivals = n /\ \A u \in Tasks : pc[u] = "idle"

TickExample ==
    /\ \E i \in 1 .. Len(ExampleTimes) - 1 :
          /\ clock = ExampleTimes[i]
          /\ Received(i)
          /\ clock' = ExampleTimes[i + 1]
    /\ UNCHANGED <<config, rate_limit_store, cache_store, lock, pc, ip, now,
                   reply, resp, arrivals, waited, log>>

ArriveExample(t) ==
    /\ \E i \in 1 .. Len(ExampleTimes) :
          clock = ExampleTimes[i] /\ Received(i - 1)
    /\ Arrive(t, "A", Len(ExampleTimes))

NextExample ==
    \/ TickExample
    \/ \E t \in Tasks : ArriveExample(t)
    \/ Handle

InitExample ==
    /\ clock = ExampleTimes[1]
    /\ cache_ttl = DurationHours(12)
    /\ max_requests_per_day = 2
    /\ shard_of = [k \in Keys |-> 1]
    /\ InitStores
    /\ InitTasks(NumTasks)

SpecExample == InitExample /\ [][NextExample]_vars

\* A well-behaved client under the default configuration (TTL 12 hours,
\* quota 2): its requests arrive at any hours, each after the one before
\* has been answered; the provider answers as it likes.
TickWellBehaved ==
    /\ Running
    /\ arrivals < MaxClientRequests
    /\ \E d \in WellBehavedTickHours :
          /\ clock + d <= MaxTime + DurationHours(12)
          /\ clock' = clock + d
    /\ UNCHANGED <<config, rate_limit_store, cache_store, lock, pc, ip, now,
                   reply, resp, arrivals, waited, log>>

ArriveWellBehaved(t) ==
    /\ \A u \in Tasks : pc[u] = "idle"
    /\ Arrive(t, "A", MaxClientRequests)

NextWellBehaved ==
    \/ TickWellBehaved
    \/ \E t \in Tasks : ArriveWellBehaved(t)
    \/ Handle

InitWellBehaved ==
    /\ clock = 0
    /\ cache_ttl = DurationHours(12)
    /\ max_requests_per_day = 2
    /\ shard_of = [k \in Keys |-> 1]
    /\ InitStores
    /\ InitTasks(NumTasks)

SpecWellBehaved == InitWellBehaved /\ [][NextWellBehaved]_vars

\* The worker threads of the runtime (#[tokio::main], line 161).  A task is
\* polled on a worker thread: from its start it runs lines 96-126 without
\* yielding, and DashMap's shard lock is a blocking lock, so a task that
\* waits on line 108 keeps its thread.  A task suspended in send().await has
\* given its thread back and needs a free one to go on when the provider
\* has answered.
OnWorker == {t \in Tasks : pc[t] \in {"cache", "limit", "done"}}

FreeWorker == Cardinality(OnWorker) < NumWorkers

ArriveOnWorker(t, k) == FreeWorker /\ Arrive(t, k, MaxRequests)

ResumeOnWorker(t) ==
    /\ FreeWorker
    /\ \E r \in Replies :
          \/ SendFailed(t, r)
          \/ GoogleApiError(t, r)
          \/ DecodeFailed(t, r)
          \/ Success(t, r)

\* The steps of the request of task t
TaskStep(t) ==
    \/ CacheHit(t)
    \/ CacheMiss(t)
    \/ Denied(t)
    \/ Admitted(t)
    \/ ResumeOnWorker(t)
    \/ Respond(t)

NextWorkers ==
    \/ Tick(MaxRequests)
    \/ \E t \in Tasks, k \in Keys : ArriveOnWorker(t, k)
    \/ \E t \in Tasks : TaskStep(t)

\* Every task is scheduled fairly, and every upstream call returns: a step
\* of a task that stays possible is taken.
Fairness == \A t \in 1 .. NumTasks : WF_vars(TaskStep(t))

SpecWorkers == Init /\ [][NextWorkers]_vars /\ Fairness

----------------------------------------------------------------------------
(* Reading the history *)

Min(a, b) == IF a <= b THEN a ELSE b

\* The limiter steps of key k that admitted their request
AdmittedSteps(k) == {i \in 1 .. Len(log[k]) : log[k][i].admitted}

\* The quota a limiter step found left: the quota less the entries of the
\* window it found that are within 24 hours of its `now`
Remaining(e) ==
    max_requests_per_day
        - Cardinality({i \in 1 .. Len(e.window) : e.window[i] + 24 > e.now})

\* Timestamps a and b lie in one 24-hour span
SameSpan(a, b) == a - b < 24 /\ b - a < 24

----------------------------------------------------------------------------
(* C1: admission atomicity.  Whenever requests of one key take their        *)
(* limiter steps one after the other with the same `now` (a burst), and the *)
(* first of them finds K admissions left in the window, exactly min(M, K)   *)
(* of the M requests of the burst are admitted and the others are denied    *)
(* with 429: never more than K.                                             *)
AdmissionAtomicity ==
    \A k \in Keys : \A i \in 1 .. Len(log[k]) : \A j \in i .. Len(log[k]) :
        (\A m \in i .. j : log[k][m].now = log[k][i].now)
        => /\ Cardinality({m \in i .. j : log[k][m].admitted})
                 = Min(j - i + 1, Remaining(log[k][i]))
           /\ \A m \in i .. j :
                 ~log[k][m].admitted => log[k][m].outcome = "denied"

\* Two requests of one key were waiting for the limiter together with one
\* admission left: the first was admitted; the second, which waited on
\* line 108 meanwhile, has now been denied with 429.
AdmissionAtomicityWitness ==
    \E t \in Tasks :
        /\ pc[t] = "done"
        /\ waited[t]
        /\ resp[t].status = 429
        /\ Len(log[ip[t]]) >= 2
        /\ LET i == Len(log[ip[t]]) - 1
               e == log[ip[t]]
           IN /\ Remaining(e[i]) = 1
              /\ e[i].admitted
              /\ e[i].now = now[t]
              /\ e[i + 1].now = now[t]
              /\ ~e[i + 1].admitted

(* C2: no over-admission in a rolling window.  The admitted requests of a   *)
(* key never include more than max_requests_per_day whose timestamps lie in *)
(* one 24-hour span.                                                        *)
NoOverAdmission ==
    \A k \in Keys : \A i \in AdmittedSteps(k) :
        Cardinality({j \in AdmittedSteps(k) :
                        /\ log[k][j].now >= log[k][i].now
                        /\ log[k][j].now < log[k][i].now + 24})
            <= max_requests_per_day

(* C3: no under-admission.  A request that reaches the limiter is admitted  *)
(* whenever fewer than max_requests_per_day admissions of its key have      *)
(* timestamps in its trailing window (now - 24h, now].                      *)
NoUnderAdmission ==
    \A k \in Keys : \A i \in 1 .. Len(log[k]) :
        Cardinality({j \in AdmittedSteps(k) :
                        /\ j < i
                        /\ log[k][j].now > log[k][i].now - 24
                        /\ log[k][j].now <= log[k][i].now})
            < max_requests_per_day
        => log[k][i].admitted

(* C4: cache freshness.  A request with `now` = t1 that looks up the cache  *)
(* while its key has an entry written with timestamp t0 is answered 200     *)
(* with that entry's location when t1 < t0 + TTL, and otherwise (t1 = t0 +  *)
(* TTL included, as when the key has no entry) misses and goes on to the    *)
(* rate limiter without a response.                                         *)
CacheFreshness ==
    [][\A t \in Tasks :
          (pc[t] = "cache" /\ pc'[t] # "cache")
          => IF /\ ip[t] \in DOMAIN cache_store
                /\ now[t] < cache_store[ip[t]].timestamp + cache_ttl
             THEN /\ pc'[t] = "done"
                  /\ resp'[t].status = 200
                  /\ resp'[t].location = cache_store[ip[t]].response
             ELSE /\ pc'[t] = "limit"
                  /\ resp'[t] = NoResp]_vars

\* A request was answered from a fresh entry while another request of the
\* same key, arrived exactly TTL after the entry's timestamp, has missed.
CacheFreshnessWitness ==
    \E t \in Tasks : \E u \in Tasks :
        /\ pc[t] = "done"
        /\ reply[t] = NoReply
        /\ resp[t].status = 200
        /\ ip[t] \in DOMAIN cache_store
        /\ resp[t].location = cache_store[ip[t]].response
        /\ now[t] < cache_store[ip[t]].timestamp + cache_ttl
        /\ pc[u] = "limit"
        /\ ip[u] = ip[t]
        /\ now[u] = cache_store[ip[u]].timestamp + cache_ttl

\* The provider answered with a success status and a decodable body
UpstreamOk(r) == r.sent /\ r.status >= 200 /\ r.status <= 299 /\ r.decodable


(* C5: write-through on success only.  When the upstream call of a request *)
(* fails (send error, undecodable body, non-success status) the step that   *)
(* returns leaves the Cache Store as it was; when it succeeds the step sets *)
(* the entry of the request's own key to the returned location, stamped     *)
(* with the request's `now`, changes no other key's entry and answers 200.  *)
WriteThrough ==
    [][\A t \in Tasks :
          (pc[t] = "upstream" /\ pc'[t] # "upstream")
          => IF UpstreamOk(reply'[t])
             THEN /\ DOMAIN cache_store' = DOMAIN cache_store \cup {ip[t]}
                  /\ cache_store'[ip[t]] =
                        [response |-> [lat |-> reply'[t].location.lat,
                                       lon |-> reply'[t].location.lng],
                         timestamp |-> now[t]]
                  /\ \A k \in DOMAIN cache_store \ {ip[t]} :
                        cache_store'[k] = cache_store[k]
                  /\ resp'[t].status = 200
             ELSE cache_store' = cache_store]_vars

\* The call of one key succeeded and wrote the key's entry; then the call of
\* another key failed and has left that key without an entry.
WriteThroughWitness ==
    \E t \in Tasks : \E k \in Keys \ {ip[t]} :
        /\ pc[t] = "done"
        /\ reply[t] # NoReply
        /\ ~UpstreamOk(reply[t])
        /\ resp[t].status \in {500, 502}
        /\ DOMAIN cache_store = {k}
        /\ Len(log[k]) = 1
        /\ log[k][1].outcome = "ok"
        /\ cache_store[k].timestamp = log[k][1].now

(* C7: a cache hit is free of side effects.  A request that finds a fresh   *)
(* entry of its key answers 200 with the cached location and performs no    *)
(* upstream call; the rate-limit windows of all keys (no key created, none  *)
(* pruned or appended to), the shard guards and the Cache Store stay as they *)
(* were, also when the quota of its key is exhausted.                       *)
CacheHitNoSideEffect ==
    [][\A t \in Tasks :
          (/\ pc[t] = "cache"
           /\ pc'[t] # "cache"
           /\ ip[t] \in DOMAIN cache_store
           /\ cache_store[ip[t]].timestamp + cache_ttl > now[t])
          => /\ pc'[t] = "done"
             /\ resp'[t].status = 200
             /\ resp'[t].location = cache_store[ip[t]].response
             /\ reply'[t] = NoReply
             /\ rate_limit_store' = rate_limit_store
             /\ cache_store' = cache_store
             /\ lock' = lock
             /\ log' = log]_vars

\* A hit while the window of the key is full.
CacheHitNoSideEffectWitness ==
    \E t \in Tasks :
        /\ pc[t] = "done"
        /\ reply[t] = NoReply
        /\ resp[t].status = 200
        /\ max_requests_per_day > 0
        /\ ip[t] \in DOMAIN rate_limit_store
        /\ Cardinality({i \in 1 .. Len(rate_limit_store[ip[t]]) :
                           rate_limit_store[ip[t]][i] + 24 > now[t]})
              >= max_requests_per_day

\* An admitted request whose upstream call failed; the last limiter step
Failed(e) == e.admitted /\ e.outcome = "failed"

Last(k) == log[k][Len(log[k])]


(* C6: quota is consumed whatever the outcome.  While a request is in its   *)
(* upstream call, and when the call has failed (500 or 502), the window of  *)
(* its key is what its admission stored: the retained entries and then its  *)
(* own `now`, nothing removed or refunded.  So when max_requests_per_day    *)
(* limiter steps of a key in a row admitted requests that all failed        *)
(* upstream, the next limiter step of the key, its `now` in one 24-hour     *)
(* span with theirs, denies with 429.                                       *)
QuotaConsumed ==
    /\ \A t \in Tasks :
          \/ pc[t] = "upstream"
          \/ pc[t] = "done" /\ resp[t].status \in {500, 502}
          => /\ Len(log[ip[t]]) > 0
             /\ Last(ip[t]).now = now[t]
             /\ ip[t] \in DOMAIN rate_limit_store
             /\ rate_limit_store[ip[t]] =
                   Append(SelectSeq(Last(ip[t]).window,
                                    LAMBDA x : x + 24 > now[t]), now[t])
    /\ \A k \in Keys : \A i \in 1 .. Len(log[k]) :
          (/\ max_requests_per_day >= 1
           /\ i > max_requests_per_day
           /\ \A j \in (i - max_requests_per_day) .. (i - 1) :
                 /\ Failed(log[k][j])
                 /\ \A m \in (i - max_requests_per_day) .. i :
                       SameSpan(log[k][j].now, log[k][m].now))
          => /\ ~log[k][i].admitted
             /\ log[k][i].outcome = "denied"

\* Two admitted requests failed upstream, with quota 2, and the third
\* request of the key in their 24-hour span was denied.
QuotaConsumedWitness ==
    \E k \in Keys :
        /\ max_requests_per_day = 2
        /\ Len(log[k]) >= 3
        /\ Failed(log[k][1])
        /\ Failed(log[k][2])
        /\ SameSpan(log[k][1].now, log[k][3].now)
        /\ SameSpan(log[k][2].now, log[k][3].now)
        /\ log[k][3].outcome = "denied"

\* The entries a limiter step found aged out; a full window with one such
Aged(e) == {i \in 1 .. Len(e.window) : e.window[i] + 24 <= e.now}

FullButOne(e) ==
    /\ max_requests_per_day >= 1
    /\ Len(e.window) = max_requests_per_day
    /\ Cardinality(Aged(e)) = 1


(* C8: quota frees by exactly one.  When a limiter step finds the window of *)
(* its key full (max_requests_per_day entries) with exactly one entry aged   *)
(* out (t + 24h <= now, the boundary now = t + 24h included) it admits the  *)
(* request; and the next limiter step of the key, if none of the entries it *)
(* finds has aged out, denies.                                              *)
QuotaFreesByOne ==
    \A k \in Keys : \A i \in 1 .. Len(log[k]) :
        FullButOne(log[k][i])
        => /\ log[k][i].admitted
           /\ i < Len(log[k]) /\ Aged(log[k][i + 1]) = {}
              => /\ ~log[k][i + 1].admitted
                 /\ log[k][i + 1].outcome = "denied"

\* With quota 2 the window was full, its earliest entry exactly 24 hours old
\* and the other younger: one request was admitted and the next denied.
QuotaFreesByOneWitness ==
    \E k \in Keys : \E i \in 1 .. Len(log[k]) - 1 :
        /\ max_requests_per_day = 2
        /\ FullButOne(log[k][i])
        /\ \E j \in Aged(log[k][i]) : log[k][i].window[j] + 24 = log[k][i].now
        /\ log[k][i].admitted
        /\ Aged(log[k][i + 1]) = {}
        /\ ~log[k][i + 1].admitted

(* C9: terminal responses.  A task produces its response in the step that   *)
(* ends handle_geo and has none before; the response is fixed by the path:  *)
(* from the cache lookup 200 with the cached location; from the limiter 429 *)
(* "Rate limit exceeded"; after the upstream call 500 when send() failed or *)
(* the body of a success answer cannot be decoded, 502 with the provider's  *)
(* status when the status is no success, and 200 with the provider's        *)
(* location otherwise.                                                      *)
TerminalResponse ==
    [][\A t \in Tasks :
          /\ pc'[t] \notin {"idle", "done"} => resp'[t] = NoResp
          /\ (pc[t] # "done" /\ pc'[t] = "done")
             => \/ /\ pc[t] = "cache"
                   /\ resp'[t] =
                         [status |-> 200, message |-> "",
                          location |-> cache_store[ip[t]].response]
                \/ /\ pc[t] = "limit"
                   /\ resp'[t] =
                         [status |-> 429, message |-> "Rate limit exceeded",
                          location |-> NoLocation]
                \/ /\ pc[t] = "upstream"
                   /\ ~reply'[t].sent
                      \/ (reply'[t].status \in 200 .. 299
                            /\ ~reply'[t].decodable)
                   /\ resp'[t].status = 500
                   /\ resp'[t].location = NoLocation
                \/ /\ pc[t] = "upstream"
                   /\ reply'[t].sent
                   /\ reply'[t].status \notin 200 .. 299
                   /\ resp'[t] =
                         [status |-> 502,
                          message |-> StatusText(reply'[t].status),
                          location |-> NoLocation]
                \/ /\ pc[t] = "upstream"
                   /\ UpstreamOk(reply'[t])
                   /\ resp'[t] =
                         [status |-> 200, message |-> "",
                          location |-> [lat |-> reply'[t].location.lat,
                                        lon |-> reply'[t].location.lng]]]_vars

\* The provider answered 403 and the request ended with 502 "403 Forbidden",
\* after requests of the history ended with 429 and with 500.
TerminalResponseWitness ==
    \E t \in Tasks :
        /\ pc[t] = "done"
        /\ reply[t].sent
        /\ reply[t].status = 403
        /\ resp[t].status = 502
        /\ resp[t].message = "403 Forbidden"
        /\ \E k \in Keys : \E i \in 1 .. Len(log[k]) :
              log[k][i].outcome = "denied"
        /\ \E k \in Keys : \E i \in 1 .. Len(log[k]) :
              log[k][i].outcome = "failed"

\* The example: what has been answered, and how
AllCallsOk ==
    \A i \in 1 .. Len(log["A"]) : log["A"][i].outcome # "failed"

Answered(n) == arrivals = n /\ pc[1] = "done" /\ AllCallsOk

HitAnswer ==
    /\ reply[1] = NoReply
    /\ resp[1].status = 200
    /\ resp[1].location = cache_store["A"].response

MissAnswer(window) ==
    /\ UpstreamOk(reply[1])
    /\ resp[1].status = 200
    /\ Last("A").window = window
    /\ Last("A").admitted
    /\ cache_store["A"] = [response |-> resp[1].location, timestamp |-> now[1]]

\* Request 1 misses, is admitted and cached; request 2 is a cache hit;
\* request 3 misses, is admitted with one entry (0h) in the window and is
\* cached again; request 4 is a cache hit.
ExampleFirstFour ==
    /\ Answered(1) => now[1] = 0 /\ MissAnswer(<<>>) /\ Len(log["A"]) = 1
    /\ Answered(2) => now[1] = 1 /\ HitAnswer /\ Len(log["A"]) = 1
    /\ Answered(3) => now[1] = 13 /\ MissAnswer(<<0>>) /\ Len(log["A"]) = 2
    /\ Answered(4) => now[1] = 14 /\ HitAnswer /\ Len(log["A"]) = 2

(* C10 as claimed: in the example scenario (TTL 12h, quota 2, client A,     *)
(* requests at 0h, 1h, 13h, 14h and 15h handled one after the other, every  *)
(* upstream call successful) requests 1 to 4 are answered as above and      *)
(* request 5 at 15h, the window holding 2 entries, is denied with 429.      *)
ExampleScenarioDenied ==
    /\ ExampleFirstFour
    /\ Answered(5) => now[1] = 15 /\ resp[1].status = 429

(* C10 as amended: in the example scenario requests 1 to 4 are answered as  *)
(* above and request 5 at 15h is a cache hit too (the entry cached at 13h   *)
(* is fresh until 25h): it is answered 200 with the location of request 3   *)
(* and does not reach the limiter, whose window holds the 2 entries 0h and  *)
(* 13h.                                                                     *)
ExampleScenario ==
    /\ ExampleFirstFour
    /\ Answered(5)
       => /\ now[1] = 15
          /\ HitAnswer
          /\ cache_store["A"].timestamp = 13
          /\ Len(log["A"]) = 2
          /\ rate_limit_store["A"] = <<0, 13>>

\* All five requests of the example have been answered.
ExampleScenarioWitness ==
    /\ Answered(5)
    /\ now[1] = 15
    /\ resp[1].status = 200
    /\ Len(log["A"]) = 2

(* C11: rate-limiter operations never wait on the network.  A task that is  *)
(* suspended in its upstream call holds the write guard of no shard of the  *)
(* Rate Limiter Store, and no request that waits on line 108 for its        *)
(* prune-check-append step is kept waiting by such a task.                  *)
LimiterNeverWaitsOnNetwork ==
    \A t \in Tasks :
        pc[t] = "upstream"
        => /\ \A s \in Shards : lock[s] # t
           /\ \A u \in Tasks :
                 pc[u] = "limit" => lock[shard_of[ip[u]]] # t

(* C12: liveness.  With every task scheduled fairly on the worker threads   *)
(* and every upstream call returning, every request that has entered        *)
(* handle_geo eventually has its terminal response, and every request that  *)
(* waits on line 108 eventually takes its admission step.                   *)
EveryRequestAnswered ==
    \A t \in 1 .. NumTasks :
        /\ (pc[t] # "idle") ~> (pc[t] = "done")
        /\ (pc[t] = "limit") ~> (pc[t] \in {"upstream", "done"})

(* C14: one upstream call, and only after admission.  A request starts an   *)
(* upstream call only from the limiter step, which it reached only by       *)
(* missing the cache, and only when that step admitted it (fewer than       *)
(* max_requests_per_day entries of its window within 24 hours).  The call   *)
(* ends the request: from the call the task goes to its response and from   *)
(* there to the end, never back (no retry).  A denied request has consumed  *)
(* no answer of the provider and leaves the Cache Store as it was.          *)
OneUpstreamCall ==
    [][\A t \in Tasks :
          /\ (pc[t] # "limit" /\ pc'[t] = "limit")
             => /\ pc[t] = "cache"
                /\ ~(/\ ip[t] \in DOMAIN cache_store
                     /\ cache_store[ip[t]].timestamp + cache_ttl > now[t])
          /\ (pc[t] # "upstream" /\ pc'[t] = "upstream")
             => /\ pc[t] = "limit"
                /\ Len(log'[ip[t]]) = Len(log[ip[t]]) + 1
                /\ log'[ip[t]][Len(log'[ip[t]])].admitted
                /\ log'[ip[t]][Len(log'[ip[t]])].now = now[t]
                /\ Remaining(log'[ip[t]][Len(log'[ip[t]])]) >= 1
          /\ (pc[t] = "upstream" /\ pc'[t] # "upstream") => pc'[t] = "done"
          /\ (pc[t] = "done" /\ pc'[t] # "done") => pc'[t] = "idle"
          /\ reply'[t] \notin {reply[t], NoReply} => pc[t] = "upstream"
          /\ (pc[t] = "limit" /\ pc'[t] = "done")
             => /\ reply'[t] = NoReply
                /\ cache_store' = cache_store]_vars

\* A request found the entry of its key stale and was denied: it has no
\* answer of the provider, and the entry, written by an earlier request of
\* the key that was admitted and made the one call of its life, is still
\* there.
OneUpstreamCallWitness ==
    \E t \in Tasks :
        /\ pc[t] = "done"
        /\ resp[t].status = 429
        /\ reply[t] = NoReply
        /\ ip[t] \in DOMAIN cache_store
        /\ cache_store[ip[t]].timestamp + cache_ttl <= now[t]
        /\ \E i \in 1 .. Len(log[ip[t]]) - 1 :
              /\ log[ip[t]][i].admitted
              /\ log[ip[t]][i].outcome = "ok"
              /\ log[ip[t]][i].now = cache_store[ip[t]].timestamp

(* C15: a denied admission stores the pruned window and nothing else.  A    *)
(* limiter step that finds max_requests_per_day or more entries of its key  *)
(* within 24 hours of its `now` denies with 429; afterwards the key's       *)
(* stored sequence is the previous one (empty if the key had none) less the *)
(* entries with timestamp + 24h <= now, the request's `now` not appended;   *)
(* the sequences of the other keys (none of them created) and the Cache     *)
(* Store are as before.  A step that finds fewer goes on to the call.       *)
DeniedStoresPrunedWindow ==
    [][\A t \in Tasks :
          (pc[t] = "limit" /\ pc'[t] # "limit")
          => LET old == IF ip[t] \in DOMAIN rate_limit_store
                        THEN rate_limit_store[ip[t]] ELSE <<>>
                 kept == SelectSeq(old, LAMBDA x : ~(x + 24 <= now[t]))
             IN IF Len(kept) >= max_requests_per_day
                THEN /\ pc'[t] = "done"
                     /\ resp'[t].status = 429
                     /\ DOMAIN rate_limit_store' =
                           DOMAIN rate_limit_store \cup {ip[t]}
                     /\ rate_limit_store'[ip[t]] = kept
                     /\ \A k \in DOMAIN rate_limit_store \ {ip[t]} :
                           rate_limit_store'[k] = rate_limit_store[k]
                     /\ cache_store' = cache_store
                ELSE pc'[t] = "upstream"]_vars

\* A request was denied with the window of its key full: the window it
\* found is the window stored, its own `now` not in it.
DeniedStoresPrunedWindowWitness ==
    \E t \in Tasks :
        /\ pc[t] = "done"
        /\ resp[t].status = 429
        /\ max_requests_per_day >= 1
        /\ Len(rate_limit_store[ip[t]]) = max_requests_per_day
        /\ rate_limit_store[ip[t]] = Last(ip[t]).window
        /\ \A i \in 1 .. Len(rate_limit_store[ip[t]]) :
              rate_limit_store[ip[t]][i] < now[t]

(* C13: serialization is per key.  While a request of one key is suspended  *)
(* in its upstream call, a request of a different key that has reached      *)
(* line 108 can take its admission step: the guard it needs is free.        *)
DifferentKeysNeverWait ==
    \A t \in Tasks : \A u \in Tasks :
        (pc[t] = "upstream" /\ pc[u] = "limit" /\ ip[u] # ip[t])
        => lock[shard_of[ip[u]]] = 0

(* C16: ordered windows.  In every reachable state the timestamp sequence   *)
(* stored for each key is in non-decreasing order.                          *)
WindowsOrdered ==
    \A k \in DOMAIN rate_limit_store :
        \A i \in 1 .. Len(rate_limit_store[k]) - 1 :
            rate_limit_store[k][i] <= rate_limit_store[k][i + 1]

(* C17: window invariant on inspection.  Right after the limiter step of a  *)
(* request with time `now`, every timestamp t stored for its key lies       *)
(* within the last 24 hours of that `now`: now - 24h < t <= now.            *)
WindowWithinLastDay ==
    [][\A t \in Tasks :
          (pc[t] = "limit" /\ pc'[t] # "limit")
          => \A i \in 1 .. Len(rate_limit_store'[ip[t]]) :
                /\ now[t] - 24 < rate_limit_store'[ip[t]][i]
                /\ rate_limit_store'[ip[t]][i] <= now[t]]_vars

(* C18: bounded windows.  In every reachable state the sequence stored for  *)
(* every key has at most max_requests_per_day entries; with                 *)
(* max_requests_per_day = 0 every request that reached the limiter was      *)
(* denied and every stored sequence is empty.                               *)
BoundedWindow ==
    /\ \A k \in DOMAIN rate_limit_store :
          Len(rate_limit_store[k]) <= max_requests_per_day
    /\ max_requests_per_day = 0
       => /\ \A k \in DOMAIN rate_limit_store : rate_limit_store[k] = <<>>
          /\ \A k \in Keys : \A i \in 1 .. Len(log[k]) :
                ~log[k][i].admitted /\ log[k][i].outcome = "denied"
          /\ \A t \in Tasks : pc[t] # "upstream"

\* With quota 2 a window is full and out of order (the limiter steps ran
\* against the order of their `now`), and a further request of the key has
\* been denied.
BoundedWindowWitness ==
    \E t \in Tasks :
        /\ pc[t] = "done"
        /\ resp[t].status = 429
        /\ max_requests_per_day = 2
        /\ Len(rate_limit_store[ip[t]]) = 2
        /\ rate_limit_store[ip[t]][1] > rate_limit_store[ip[t]][2]

(* C19: the default configuration never rate-limits a well-behaved client.  *)
(* With TTL 12h and quota 2, the requests of a client handled one at a time *)
(* and every upstream call so far successful, every request that reaches    *)
(* the limiter is admitted, at least 12 hours after the admission before    *)
(* it, and no response is 429.                                              *)
WellBehavedNeverDenied ==
    /\ \A i \in 1 .. Len(log["A"]) :
          (\A j \in 1 .. i - 1 : log["A"][j].outcome = "ok")
          => /\ log["A"][i].admitted
             /\ log["A"][i].outcome # "denied"
             /\ \A j \in 1 .. i - 1 :
                   log["A"][j].now + 12 <= log["A"][i].now
    /\ \A t \in Tasks :
          (pc[t] = "done" /\ AllCallsOk) => resp[t].status # 429

\* The third call of the client succeeded: its limiter step found the two
\* timestamps of the calls before it, the first of them aged out.
WellBehavedNeverDeniedWitness ==
    \E t \in Tasks :
        /\ pc[t] = "done"
        /\ UpstreamOk(reply[t])
        /\ resp[t].status = 200
        /\ Len(log["A"]) = 3
        /\ \A i \in 1 .. 3 : log["A"][i].outcome = "ok"
        /\ Len(log["A"][3].window) = 2
        /\ log["A"][3].window[1] + 24 <= now[t]

====
